---- MODULE Spec2Model ----
(***************************************************************************)
(* Model of src/app.py: the inventory ledger reducer                       *)
(* (recalculate_inventory) and the session handlers that feed it.          *)
(*                                                                         *)
(* Text cells that the code passes through safe_str (warehouse, document   *)
(* type) are sequences of one-character strings, so that stripping is a    *)
(* real operation.  The Chinese literals of the source are transliterated: *)
(*   warehouses  Wen, Qianyun (second entry of WAREHOUSES), James, Imeng   *)
(*   doc types   Purchase = jin-huo, ManufactureReceipt = zhi-zao-ru-ku,   *)
(*               AdjustIn = tiao-zheng-ru-ku, OpeningBalance = qi-chu,     *)
(*               AdjustmentIncrease = ku-cun-tiao-zheng(jia),              *)
(*               Sale = xiao-shou-chu-huo, ManufactureIssue = ling-liao,   *)
(*               AdjustOut = tiao-zheng-chu-ku,                            *)
(*               AdjustmentDecrease = ku-cun-tiao-zheng(jian)              *)
(* Money amounts are exact rationals [n, d]; quantities are integers.      *)
(***************************************************************************)
EXTENDS Integers, Sequences, FiniteSets, TLC

\* ------------------------------------------------------------------------
\* Bounds of the model
\* ------------------------------------------------------------------------
MaxHist == 2
MaxRows == 2
MaxSteps == 3
MaxQty == 2

\* ------------------------------------------------------------------------
\* Text cells
\* ------------------------------------------------------------------------
Wen == <<"W", "e", "n">>
Qianyun == <<"Q", "i", "a", "n", "y", "u", "n">>
James == <<"J", "a", "m", "e", "s">>
Imeng == <<"I", "m", "e", "n", "g">>

WAREHOUSES == <<Wen, Qianyun, James, Imeng>>

WarehouseSet == {WAREHOUSES[i] : i \in 1..Len(WAREHOUSES)}

Purchase == <<"P", "u", "r">>
ManufactureReceipt == <<"M", "R", "c">>
AdjustIn == <<"A", "I", "n">>
OpeningBalance == <<"O", "p", "n">>
AdjustmentIncrease == <<"A", "d", "+">>
Sale == <<"S", "a", "l">>
ManufactureIssue == <<"M", "I", "s">>
AdjustOut == <<"A", "O", "u">>
AdjustmentDecrease == <<"A", "d", "-">>

INBOUND_TYPES == {Purchase, ManufactureReceipt, AdjustIn, OpeningBalance, AdjustmentIncrease}

\* Mutant of OUTBOUND_TYPES: the list without the stock-count decrease
OutboundTypesWithoutCount == {Sale, ManufactureIssue, AdjustOut}

OUTBOUND_TYPES == {Sale, ManufactureIssue, AdjustOut, AdjustmentDecrease}

IsSpace(c) == c = " "

RECURSIVE LStrip(_)
LStrip(s) == IF s # <<>> /\ IsSpace(Head(s)) THEN LStrip(Tail(s)) ELSE s

RECURSIVE RStrip(_)
RStrip(s) ==
    IF s # <<>> /\ IsSpace(s[Len(s)]) THEN RStrip(SubSeq(s, 1, Len(s) - 1)) ELSE s

\* safe_str: str(v).strip()
safe_str(v) == RStrip(LStrip(v))

\* A raw numeric cell is <<n>> for the number n and <<>> for a cell that is
\* empty, NaN or not a number.  safe_float keeps a number and turns anything
\* else into 0.
Blank == <<>>

Num(n) == <<n>>

safe_float(v) == IF Len(v) = 0 THEN 0 ELSE v[1]

\* ------------------------------------------------------------------------
\* Exact rational arithmetic for the cost basis
\* ------------------------------------------------------------------------
Abs(x) == IF x < 0 THEN -x ELSE x

RECURSIVE GCD(_, _)
GCD(a, b) == IF b = 0 THEN a ELSE GCD(b, a % b)

Rat(n, d) ==
    LET g == GCD(Abs(n), d)
    IN  IF n = 0 THEN [n |-> 0, d |-> 1] ELSE [n |-> n \div g, d |-> d \div g]

RatOfInt(i) == [n |-> i, d |-> 1]

Zero == RatOfInt(0)

RatAdd(a, b) == Rat(a.n * b.d + b.n * a.d, a.d * b.d)

RatSub(a, b) == Rat(a.n * b.d - b.n * a.d, a.d * b.d)

RatMulInt(i, a) == Rat(i * a.n, a.d)

RatLtZero(a) == a.n < 0

RatGtZero(a) == a.n > 0

\* a / q for an integer q; the caller guards q # 0 (Python raises otherwise)
ZeroDivisionError == [n |-> 0, d |-> 0]

RatDivInt(a, q) ==
    IF q = 0 THEN ZeroDivisionError
    ELSE IF q > 0 THEN Rat(a.n, a.d * q) ELSE Rat(-a.n, a.d * (-q))

\* ------------------------------------------------------------------------
\* Tables.  A ledger row (after normalize_history) is
\*   [doc_type, date, series, category, name, spec, sku, wh, qty, cost]
\* (date is the day number of the YYYY-MM-DD text)
\* and an inventory row is
\*   [series, category, name, spec, sku, total_qty, avg, w_stock]
\* with w_stock the four per-warehouse columns.
\* ------------------------------------------------------------------------
\* normalize_history: numeric columns through safe_float; text columns are
\* kept as they are (astype(str) does not strip)
normalize_history(df) ==
    [i \in 1..Len(df) |->
        [doc_type |-> df[i].doc_type, date |-> df[i].date, series |-> df[i].series,
         category |-> df[i].category, name |-> df[i].name, spec |-> df[i].spec,
         sku |-> df[i].sku, wh |-> df[i].wh,
         qty |-> safe_float(df[i].qty), cost |-> safe_float(df[i].cost)]]

ZeroStock == [w \in WarehouseSet |-> 0]

\* Codepoint order of the text values used for SKUs and descriptive fields
TextOrder == <<"", "A", "B", "N1", "N2">>

Rank(s) == CHOOSE i \in 1..Len(TextOrder) : TextOrder[i] = s

SortKey(r) == <<Rank(r.series), Rank(r.category), Rank(r.name), Rank(r.spec), Rank(r.sku)>>

RECURSIVE KeyLess(_, _)
KeyLess(a, b) ==
    IF a = <<>> THEN FALSE
    ELSE IF Head(a) # Head(b) THEN Head(a) < Head(b)
    ELSE KeyLess(Tail(a), Tail(b))

RECURSIVE InsertSorted(_, _)
InsertSorted(r, sorted) ==
    IF sorted = <<>> THEN <<r>>
    ELSE IF KeyLess(SortKey(r), SortKey(Head(sorted))) THEN <<r>> \o sorted
    ELSE <<Head(sorted)>> \o InsertSorted(r, Tail(sorted))

RECURSIVE SortRows(_)
SortRows(df) ==
    IF df = <<>> THEN <<>>
    ELSE InsertSorted(df[Len(df)], SortRows(SubSeq(df, 1, Len(df) - 1)))

\* sort_inventory: ascending by series, category, name, spec, sku
sort_inventory(df) == SortRows(df)

\* ------------------------------------------------------------------------
\* recalculate_inventory
\* ------------------------------------------------------------------------
\* Locals of the per-SKU loop before the first entry (lines 300-302).
\* raised records a ZeroDivisionError escaping the loop body.
FoldInit == [total_qty |-> 0, total_val |-> Zero, w_stock |-> ZeroStock, raised |-> FALSE]

\* Mutant of ResolveWarehouse: an unknown warehouse goes to the second one
ResolveWarehouseSecond(h) ==
    IF safe_str(h.wh) \in WarehouseSet THEN safe_str(h.wh) ELSE WAREHOUSES[2]

\* wh = safe_str(h.wh); if wh not in WAREHOUSES: wh = WAREHOUSES[0]
ResolveWarehouse(h) ==
    IF safe_str(h.wh) \in WarehouseSet THEN safe_str(h.wh) ELSE WAREHOUSES[1]

IsInbound(h) == safe_str(h.doc_type) \in INBOUND_TYPES

IsOutbound(h) == safe_str(h.doc_type) \in OUTBOUND_TYPES

\* avg_cost = (total_val / total_qty) if total_qty > 0 else 0.0
AvgCost(st) == IF st.total_qty > 0 THEN RatDivInt(st.total_val, st.total_qty) ELSE Zero

\* Mutant of FoldInbound: the cost of the row is not added to the cost basis
FoldInboundNoCost(st, h) ==
    LET wh == ResolveWarehouse(h)
    IN  [st EXCEPT !.total_qty = @ + h.qty, !.w_stock = [@ EXCEPT ![wh] = @ + h.qty]]

FoldInbound(st, h) ==
    LET wh == ResolveWarehouse(h)
    IN  [st EXCEPT !.total_qty = @ + h.qty,
                   !.total_val = IF h.cost > 0 THEN RatAdd(@, RatOfInt(h.cost)) ELSE @,
                   !.w_stock = [@ EXCEPT ![wh] = @ + h.qty]]

\* Mutant of FoldOutbound: the cost basis is not reduced
FoldOutboundKeepBasis(st, h) ==
    LET wh == ResolveWarehouse(h)
        qty1 == st.total_qty - h.qty
    IN  [st EXCEPT !.total_qty = IF qty1 < 0 THEN 0 ELSE qty1,
                   !.w_stock = [@ EXCEPT ![wh] = @ - h.qty]]

\* Mutant of FoldOutbound: the warehouse quantity is not reduced
FoldOutboundNoStock(st, h) ==
    LET avg_cost == AvgCost(st)
        qty1 == st.total_qty - h.qty
        val1 == RatSub(st.total_val, RatMulInt(h.qty, avg_cost))
    IN  [st EXCEPT !.total_qty = IF qty1 < 0 THEN 0 ELSE qty1,
                   !.total_val = IF RatLtZero(val1) THEN Zero ELSE val1]

\* Mutant of FoldOutbound: the warehouse quantity is clamped at zero too
FoldOutboundClampStock(st, h) ==
    LET wh == ResolveWarehouse(h)
        avg_cost == AvgCost(st)
        qty1 == st.total_qty - h.qty
        val1 == RatSub(st.total_val, RatMulInt(h.qty, avg_cost))
    IN  [st EXCEPT !.total_qty = IF qty1 < 0 THEN 0 ELSE qty1,
                   !.total_val = IF RatLtZero(val1) THEN Zero ELSE val1,
                   !.w_stock = [@ EXCEPT ![wh] = IF @ - h.qty < 0 THEN 0 ELSE @ - h.qty]]

\* Mutant of FoldOutbound: total_qty is not clamped at zero
FoldOutboundNoClamp(st, h) ==
    LET wh == ResolveWarehouse(h)
        avg_cost == AvgCost(st)
        val1 == RatSub(st.total_val, RatMulInt(h.qty, avg_cost))
    IN  [st EXCEPT !.total_qty = @ - h.qty,
                   !.total_val = IF RatLtZero(val1) THEN Zero ELSE val1,
                   !.w_stock = [@ EXCEPT ![wh] = @ - h.qty]]

FoldOutbound(st, h) ==
    LET wh == ResolveWarehouse(h)
        avg_cost == AvgCost(st)
        qty1 == st.total_qty - h.qty
        val1 == RatSub(st.total_val, RatMulInt(h.qty, avg_cost))
    IN  IF avg_cost = ZeroDivisionError THEN [st EXCEPT !.raised = TRUE]
        ELSE [st EXCEPT !.total_qty = IF qty1 < 0 THEN 0 ELSE qty1,
                        !.total_val = IF RatLtZero(val1) THEN Zero ELSE val1,
                        !.w_stock = [@ EXCEPT ![wh] = @ - h.qty]]

\* Mutant of FoldEntry: a row of a type in neither list is folded as inbound
FoldEntryDefaultInbound(st, h) ==
    IF st.raised THEN st
    ELSE IF IsOutbound(h) THEN FoldOutbound(st, h)
    ELSE FoldInbound(st, h)

\* One iteration of the loop over sub_hist (lines 304-328)
FoldEntry(st, h) ==
    IF st.raised THEN st
    ELSE IF IsInbound(h) THEN FoldInbound(st, h)
    ELSE IF IsOutbound(h) THEN FoldOutbound(st, h)
    ELSE st

\* Mutant of SubHist: the rows of the SKU are sorted by date (stable) before
\* they are folded
RECURSIVE InsertByDate(_, _)
InsertByDate(h, sorted) ==
    IF sorted = <<>> THEN <<h>>
    ELSE IF h.date < Head(sorted).date THEN <<h>> \o sorted
    ELSE <<Head(sorted)>> \o InsertByDate(h, Tail(sorted))

RECURSIVE SubHistByDate(_, _)
SubHistByDate(hist_df, sku) ==
    IF hist_df = <<>> THEN <<>>
    ELSE LET h == hist_df[Len(hist_df)]
             rest == SubHistByDate(SubSeq(hist_df, 1, Len(hist_df) - 1), sku)
         IN  IF h.sku = sku THEN InsertByDate(h, rest) ELSE rest

\* Mutant of SubHist: the ledger is not filtered by SKU
SubHistAnySku(hist_df, sku) == hist_df

\* sub_hist = hist_df[hist_df.sku == sku]
RECURSIVE SubHist(_, _)
SubHist(hist_df, sku) ==
    IF hist_df = <<>> THEN <<>>
    ELSE IF Head(hist_df).sku = sku THEN <<Head(hist_df)>> \o SubHist(Tail(hist_df), sku)
    ELSE SubHist(Tail(hist_df), sku)

\* The loop over sub_hist, in storage order
RECURSIVE FoldFrom(_, _)
FoldFrom(st, sub_hist) ==
    IF sub_hist = <<>> THEN st ELSE FoldFrom(FoldEntry(st, Head(sub_hist)), Tail(sub_hist))

FoldSku(hist_df, sku) == FoldFrom(FoldInit, SubHist(hist_df, sku))

\* avg = (total_val / total_qty) if total_qty > 0 else 0.0   (line 331)
ReportedAvg(st) == IF st.total_qty > 0 THEN RatDivInt(st.total_val, st.total_qty) ELSE Zero

\* Lines 330-333: the row written back for one inventory row
\* Mutant of WriteRow: the fold is added to the numbers the row came with
WriteRowOnTop(row, st) ==
    [row EXCEPT !.total_qty = @ + st.total_qty, !.avg = ReportedAvg(st),
                !.w_stock = [w \in WarehouseSet |-> @[w] + st.w_stock[w]]]

WriteRow(row, st) ==
    [row EXCEPT !.total_qty = st.total_qty, !.avg = ReportedAvg(st), !.w_stock = st.w_stock]

SkusOf(df) == {df[i].sku : i \in 1..Len(df)}

\* Mutant of ExtraRows: the last ledger row of a SKU is kept, not the first
RECURSIVE ExtraRowsKeepLast(_, _)
ExtraRowsKeepLast(hist_df, new_skus) ==
    IF hist_df = <<>> THEN <<>>
    ELSE LET h == hist_df[Len(hist_df)]
             rest == SubSeq(hist_df, 1, Len(hist_df) - 1)
         IN  IF h.sku \in new_skus
             THEN ExtraRowsKeepLast(rest, new_skus \ {h.sku})
                  \o <<[series |-> h.series, category |-> h.category, name |-> h.name,
                         spec |-> h.spec, sku |-> h.sku, total_qty |-> 0, avg |-> Zero,
                         w_stock |-> ZeroStock]>>
             ELSE ExtraRowsKeepLast(rest, new_skus)

\* Lines 279-285: first ledger row of every SKU in new_skus, in ledger order
RECURSIVE ExtraRows(_, _)
ExtraRows(hist_df, new_skus) ==
    IF hist_df = <<>> THEN <<>>
    ELSE LET h == Head(hist_df)
         IN  IF h.sku \in new_skus
             THEN <<[series |-> h.series, category |-> h.category, name |-> h.name,
                     spec |-> h.spec, sku |-> h.sku, total_qty |-> 0, avg |-> Zero,
                     w_stock |-> ZeroStock]>>
                  \o ExtraRows(Tail(hist_df), new_skus \ {h.sku})
             ELSE ExtraRows(Tail(hist_df), new_skus)

\* Mutant of WithNewSkus: a stub row for every SKU of the ledger
WithAllLedgerSkus(hist_df, inv_df) == inv_df \o ExtraRows(hist_df, SkusOf(hist_df))

\* Lines 273-289: inventory rows plus a stub row for every ledger-only SKU
WithNewSkus(hist_df, inv_df) == inv_df \o ExtraRows(hist_df, SkusOf(hist_df) \ SkusOf(inv_df))

\* Lines 291-333 without the final sort
RecalcRows(hist_df, inv_df) ==
    LET all == WithNewSkus(hist_df, inv_df)
    IN  [i \in 1..Len(all) |-> WriteRow(all[i], FoldSku(hist_df, all[i].sku))]

\* A ZeroDivisionError in any row's fold propagates out of the function
Raises(hist_df, inv_df) ==
    \E s \in SkusOf(hist_df) \cup SkusOf(inv_df) : FoldSku(hist_df, s).raised

recalculate_inventory(hist_df, inv_df) == sort_inventory(RecalcRows(hist_df, inv_df))

\* normalize_inventory: the eleven inventory columns, numbers through
\* safe_float (they are numbers already)
normalize_inventory(df) == df

\* ------------------------------------------------------------------------
\* State
\* ------------------------------------------------------------------------
VARIABLES
    hist_df,        \* recalculate_inventory: the ledger passed in
    inv_df,         \* recalculate_inventory: the inventory table passed in
    result,         \* the returned table
    status,         \* "input" before the call, then "returned" or "raised"
    total_qty,      \* locals of the per-SKU loop (lines 300-328)
    total_val,
    w_stock,
    raised,         \* a ZeroDivisionError left the loop body
    pos,            \* number of rows folded so far
    out,            \* the values written to the inventory row, <<>> until written
    inventory,      \* st.session_state["inventory"] of every browser session
    history,        \* st.session_state["history"] of every browser session
    db_inventory,   \* the persisted inventory table (CSV file and SQLite table)
    db_history,     \* the persisted history table
    pc,             \* where every session's script run stands
    shown,          \* what every session's last handler displayed: "none",
                    \* or the st.success / st.error / st.warning / st.info call
    rules_df,       \* sku_rule_lookup: the rules table passed in
    text,           \* sku_rule_lookup: the text passed in
    code            \* <<>> before the call, then <<the string returned>>

callVars == <<hist_df, inv_df, result, status>>

loopVars == <<total_qty, total_val, w_stock, raised, pos, out>>

sessVars == <<inventory, history, db_inventory, db_history, pc, shown>>

lookupVars == <<rules_df, text, code>>

vars == <<hist_df, inv_df, result, status, total_qty, total_val, w_stock, raised, pos, out,
          inventory, history, db_inventory, db_history, pc, shown, rules_df, text, code>>

\* sku_rule_lookup has not been called
LookupIdle ==
    /\ rules_df = <<>>
    /\ text = <<>>
    /\ code = <<>>

Sessions == {"s1", "s2"}

\* No session has started and nothing is persisted
SessionIdle ==
    /\ inventory = [s \in Sessions |-> <<>>]
    /\ history = [s \in Sessions |-> <<>>]
    /\ db_inventory = <<>>
    /\ db_history = <<>>
    /\ pc = [s \in Sessions |-> "new"]
    /\ shown = [s \in Sessions |-> "none"]

\* ------------------------------------------------------------------------
\* Inputs
\* ------------------------------------------------------------------------
SKUS == {"A", "B"}

D1 == [series |-> "A", category |-> "B", name |-> "N1", spec |-> ""]

D2 == [series |-> "B", category |-> "A", name |-> "N2", spec |-> "N1"]

\* Warehouse cells: a configured name padded with a blank, and an unknown name
PaddedQianyun == <<" ">> \o Qianyun

OtherWh == <<"X">>

\* Document type cells: a type in neither list, and a listed type padded
Scrap == <<"S", "c", "r">>

PaddedSale == Sale \o <<" ">>

HistRow(doc_type, d, sku, wh, qty, cost) ==
    [doc_type |-> doc_type, date |-> 1, series |-> d.series, category |-> d.category,
     name |-> d.name, spec |-> d.spec, sku |-> sku, wh |-> wh, qty |-> qty, cost |-> cost]

\* Values of the date column
Dates == {1, 2}

InvRow(d, sku, qty, avg, stock) ==
    [series |-> d.series, category |-> d.category, name |-> d.name, spec |-> d.spec,
     sku |-> sku, total_qty |-> qty, avg |-> avg, w_stock |-> stock]

DescOf(r) == [series |-> r.series, category |-> r.category, name |-> r.name, spec |-> r.spec]

SeqsUpTo(S, n) == UNION {[1..k -> S] : k \in 0..n}

\* ------------------------------------------------------------------------
\* The per-SKU loop of recalculate_inventory, one iteration per step
\* (lines 300-333).  The rows are those of one SKU; quantities and costs are
\* non-negative, as in every row the pages write.
\* ------------------------------------------------------------------------
CostUnit == 6

\* The worked example: 10 @ 100, sell 4, 5 @ 60
ExampleRows ==
    <<HistRow(Purchase, D1, "A", Wen, 10, 100),
      HistRow(Sale, D1, "A", Wen, 4, 0),
      HistRow(Purchase, D1, "A", Wen, 5, 60)>>

\* Purchases and sales in every combination; one row of every other
\* document type, of a type in neither list and of a padded type
LoopRows ==
    {HistRow(Purchase, D1, "A", w, q, c) :
        w \in {Wen, PaddedQianyun}, q \in 0..MaxQty, c \in {0, CostUnit}}
    \cup {HistRow(Sale, D1, "A", w, q, 0) : w \in {Wen, PaddedQianyun}, q \in 0..MaxQty}
    \cup {HistRow(t, D1, "A", OtherWh, 1, CostUnit) :
            t \in (INBOUND_TYPES \cup OUTBOUND_TYPES \cup {Scrap, PaddedSale}) \ {Purchase, Sale}}
    \cup {ExampleRows[i] : i \in 1..Len(ExampleRows)}

Locals == [total_qty |-> total_qty, total_val |-> total_val, w_stock |-> w_stock, raised |-> raised]

CallIdle ==
    /\ hist_df = <<>>
    /\ inv_df = <<>>
    /\ result = <<>>
    /\ status = "input"

LoopInit ==
    /\ total_qty = FoldInit.total_qty
    /\ total_val = FoldInit.total_val
    /\ w_stock = FoldInit.w_stock
    /\ raised = FoldInit.raised
    /\ pos = 0
    /\ out = <<>>

InitLoop == CallIdle /\ LoopInit /\ SessionIdle /\ LookupIdle

\* One iteration on row e: the locals after it are FoldEntry of the locals before
Iterate(e) ==
    /\ out = <<>>
    /\ ~raised
    /\ pos < MaxSteps
    /\ pos' = pos + 1
    /\ total_qty' = FoldEntry(Locals, e).total_qty
    /\ total_val' = FoldEntry(Locals, e).total_val
    /\ w_stock' = FoldEntry(Locals, e).w_stock
    /\ raised' = FoldEntry(Locals, e).raised
    /\ UNCHANGED <<out, callVars, sessVars, lookupVars>>

LoopInbound == \E e \in LoopRows : IsInbound(e) /\ Iterate(e)

LoopOutbound == \E e \in LoopRows : IsOutbound(e) /\ Iterate(e)

LoopSkip == \E e \in LoopRows : ~IsInbound(e) /\ ~IsOutbound(e) /\ Iterate(e)

\* After the last row: the three assignments to the inventory row (330-333)
LoopWriteBack ==
    /\ out = <<>>
    /\ ~raised
    /\ out' = <<[total_qty |-> total_qty, avg |-> ReportedAvg(Locals), w_stock |-> w_stock]>>
    /\ UNCHANGED <<total_qty, total_val, w_stock, raised, pos, callVars, sessVars, lookupVars>>

NextLoop == LoopInbound \/ LoopOutbound \/ LoopSkip \/ LoopWriteBack

SpecFold == InitLoop /\ [][NextLoop]_vars

\* ------------------------------------------------------------------------
\* recalculate_inventory as one call on a ledger and an inventory table
\* ------------------------------------------------------------------------
\* Ledger rows: purchases without and with a cost, and sales written after
\* the product's descriptive fields were changed; a configured, a padded
\* and an unknown warehouse cell; a row of a document type in neither list
\* and a row of a padded document type, as the ledger grids let one type
LedgerRows ==
    {HistRow(Purchase, D1, s, w, 1, c) :
        s \in SKUS, w \in {Wen, PaddedQianyun, OtherWh}, c \in {0, CostUnit}}
    \cup {HistRow(Sale, D2, s, w, 1, 0) : s \in SKUS, w \in {Wen, PaddedQianyun, OtherWh}}
    \cup {HistRow(t, D2, "A", Wen, 1, CostUnit) : t \in {Scrap, PaddedSale}}

\* Inventory rows as a previous session left them: stock numbers of an
\* earlier recompute, which the call overwrites
StaleStock == [ZeroStock EXCEPT ![Wen] = 1]

ProductRows == {InvRow(D1, s, 1, RatOfInt(CostUnit), StaleStock) : s \in SKUS}

InitCall ==
    /\ hist_df \in SeqsUpTo(LedgerRows, MaxHist)
    /\ inv_df \in SeqsUpTo(ProductRows, MaxRows)
    /\ result = <<>>
    /\ status = "input"
    /\ LoopInit
    /\ SessionIdle
    /\ LookupIdle

Recalculate ==
    /\ status = "input"
    /\ IF Raises(hist_df, inv_df)
       THEN result' = <<>> /\ status' = "raised"
       ELSE result' = recalculate_inventory(hist_df, inv_df) /\ status' = "returned"
    /\ UNCHANGED <<hist_df, inv_df, loopVars, sessVars, lookupVars>>

NextCall == Recalculate

SpecRecalc == InitCall /\ [][NextCall]_vars

\* ------------------------------------------------------------------------
\* One browser session and the files it saves to.  Every handler is one
\* step: what it assigns to st.session_state and its save_data() call.
\* The session works on one product; the product import and the product
\* grid (ImportProduct, SaveProductEdit) are steps of SpecProducts below,
\* and the refusing branches of the handlers are steps of SpecPages.
\* ------------------------------------------------------------------------
Clerk == "s1"

\* A table of numbers as the grid of cells a file or a data editor holds
Cells(df) == [i \in 1..Len(df) |-> [df[i] EXCEPT !.qty = Num(@), !.cost = Num(@)]]

\* load_data: both tables normalised
load_data == <<normalize_inventory(db_inventory), normalize_history(Cells(db_history))>>

\* save_data: both tables normalised and written to the files and to SQLite
save_data(inv, hist) ==
    /\ db_inventory' = normalize_inventory(inv)
    /\ db_history' = normalize_history(Cells(hist))

\* The end of every handler: the session tables are assigned and saved,
\* and st.success reports it
Store(s, inv, hist) ==
    /\ history' = [history EXCEPT ![s] = hist]
    /\ inventory' = [inventory EXCEPT ![s] = inv]
    /\ save_data(inv, hist)
    /\ shown' = [shown EXCEPT ![s] = "success"]
    /\ UNCHANGED <<pc, callVars, loopVars, lookupVars>>

\* Session init (lines 730-733)
StartSession(s) ==
    /\ pc[s] = "new"
    /\ inventory' = [inventory EXCEPT ![s] = load_data[1]]
    /\ history' = [history EXCEPT ![s] = load_data[2]]
    /\ pc' = [pc EXCEPT ![s] = "ready"]
    /\ UNCHANGED <<db_inventory, db_history, shown, callVars, loopVars, lookupVars>>

\* Choices the forms offer
FormWarehouses == {WAREHOUSES[1], WAREHOUSES[2]}

FormQuantities == {1}

CountedQuantities == {0, 1}

ProductDescs == {D1, D2}

\* The SKU typed into the product pages and the opening-stock file
ShopSkus == {"A"}

\* The selectbox label of an inventory row, and the row a chosen label
\* selects: inv[inv["label"] == sel_label].iloc[0]
Label(r) == <<r.sku, r.name, r.total_qty>>

SelectedRow(inv, i) ==
    inv[CHOOSE j \in 1..Len(inv) :
            /\ Label(inv[j]) = Label(inv[i])
            /\ \A k \in 1..(j - 1) : Label(inv[k]) # Label(inv[i])]

\* Names that name.strip() leaves empty
BlankNames == {"", " "}

\* Mutant of CreateProduct: the SKU is not looked up in the inventory
CreateProductUnchecked(s, d, sku) ==
    /\ pc[s] = "ready"
    /\ d.name \notin BlankNames
    /\ Len(inventory[s]) < MaxRows
    /\ Store(s, sort_inventory(Append(inventory[s], InvRow(d, sku, 0, Zero, ZeroStock))),
             history[s])

\* Create product (lines 943-965)
CreateProduct(s, d, sku) ==
    /\ pc[s] = "ready"
    /\ d.name \notin BlankNames
    /\ sku \notin SkusOf(inventory[s])
    /\ Len(inventory[s]) < MaxRows
    /\ Store(s, sort_inventory(Append(inventory[s], InvRow(d, sku, 0, Zero, ZeroStock))),
             history[s])

\* Mutant of ImportProduct: the row of a SKU on file is replaced by a new row
ImportProductFresh(s, d, sku) ==
    /\ pc[s] = "ready"
    /\ LET inv == inventory[s]
           exists == {i \in 1..Len(inv) : inv[i].sku = sku}
           idx == CHOOSE i \in exists : \A j \in exists : i <= j
       IN  IF exists # {}
           THEN Store(s, sort_inventory([inv EXCEPT ![idx] = InvRow(d, sku, 0, Zero, ZeroStock)]),
                      history[s])
           ELSE /\ Len(inv) < MaxRows
                /\ Store(s, sort_inventory(Append(inv, InvRow(d, sku, 0, Zero, ZeroStock))),
                         history[s])

\* Import products (lines 975-1010), a file of one product
ImportProduct(s, d, sku) ==
    /\ pc[s] = "ready"
    /\ LET inv == inventory[s]
           exists == {i \in 1..Len(inv) : inv[i].sku = sku}
           idx == CHOOSE i \in exists : \A j \in exists : i <= j
       IN  IF exists # {}
           THEN Store(s, sort_inventory([inv EXCEPT ![idx].name = d.name,
                                                    ![idx].series = d.series,
                                                    ![idx].category = d.category,
                                                    ![idx].spec = d.spec]),
                      history[s])
           ELSE /\ Len(inv) < MaxRows
                /\ Store(s, sort_inventory(Append(inv, InvRow(d, sku, 0, Zero, ZeroStock))),
                         history[s])

\* Save product edits (lines 1055-1065): the four descriptive fields of a row
SaveProductEdit(s, i, d) ==
    /\ pc[s] = "ready"
    /\ i \in 1..Len(inventory[s])
    /\ Store(s, sort_inventory([inventory[s] EXCEPT ![i].series = d.series,
                                                    ![i].category = d.category,
                                                    ![i].name = d.name,
                                                    ![i].spec = d.spec]),
             history[s])

\* The record an intake form builds (lines 1108-1124, 1202-1219, 1302-1316,
\* 1351-1365); the purchase form writes a total cost of 0
FormRecord(doc_type, sel_row, wh, qty) ==
    HistRow(doc_type, DescOf(sel_row), sel_row.sku, wh, qty, 0)

\* Mutant of SubmitForm: the new record is put in front of the ledger
SubmitFormInFront(s, doc_type, i, wh, qty) ==
    /\ pc[s] = "ready"
    /\ inventory[s] # <<>>
    /\ i \in 1..Len(inventory[s])
    /\ Len(history[s]) < MaxHist
    /\ LET inv == sort_inventory(inventory[s])
           rec == FormRecord(doc_type, SelectedRow(inv, i), wh, qty)
           hist == <<rec>> \o history[s]
       IN  Store(s, recalculate_inventory(hist, inv), hist)

\* Submit of an intake form: purchase 1104-1135, sale 1198-1229,
\* manufacture issue 1298-1327, manufacture receipt 1347-1382
SubmitForm(s, doc_type, i, wh, qty) ==
    /\ pc[s] = "ready"
    /\ inventory[s] # <<>>
    /\ i \in 1..Len(inventory[s])
    /\ Len(history[s]) < MaxHist
    /\ LET inv == sort_inventory(inventory[s])
           rec == FormRecord(doc_type, SelectedRow(inv, i), wh, qty)
           hist == Append(history[s], rec)
       IN  Store(s, recalculate_inventory(hist, inv), hist)

\* Mutant of SubmitCount: the two adjustment types are exchanged
SubmitCountReversed(s, i, wh, new_qty) ==
    /\ pc[s] = "ready"
    /\ inventory[s] # <<>>
    /\ i \in 1..Len(inventory[s])
    /\ Len(history[s]) < MaxHist
    /\ LET inv == sort_inventory(inventory[s])
           row == SelectedRow(inv, i)
           current_qty == row.w_stock[wh]
           diff == new_qty - current_qty
           doc_type == IF diff > 0 THEN AdjustmentDecrease ELSE AdjustmentIncrease
           rec == HistRow(doc_type, DescOf(row), row.sku, wh, Abs(diff), 0)
           hist == Append(history[s], rec)
       IN  /\ diff # 0
           /\ Abs(diff) <= MaxQty
           /\ Store(s, recalculate_inventory(hist, inv), hist)

\* Stock count (lines 1411-1457)
SubmitCount(s, i, wh, new_qty) ==
    /\ pc[s] = "ready"
    /\ inventory[s] # <<>>
    /\ i \in 1..Len(inventory[s])
    /\ Len(history[s]) < MaxHist
    /\ LET inv == sort_inventory(inventory[s])
           row == SelectedRow(inv, i)
           current_qty == row.w_stock[wh]
           diff == new_qty - current_qty
           doc_type == IF diff > 0 THEN AdjustmentIncrease ELSE AdjustmentDecrease
           rec == HistRow(doc_type, DescOf(row), row.sku, wh, Abs(diff), 0)
           hist == Append(history[s], rec)
       IN  /\ diff # 0
           /\ Abs(diff) <= MaxQty
           /\ Store(s, recalculate_inventory(hist, inv), hist)

\* Opening stock import (lines 475-566, 1021-1033), a file of one row with
\* the descriptive columns and a warehouse column
OpeningFileRows ==
    {[sku |-> k, qty |-> q, cost |-> Num(CostUnit), wh |-> w, desc |-> D1] :
        k \in ShopSkus, q \in {Blank, Num(1)}, w \in {PaddedQianyun, OtherWh}}

\* Mutant of OpeningRec: a row whose quantity is not positive is kept
OpeningRecAnyQty(r, inv, default_wh) ==
    LET wh == IF safe_str(r.wh) \in WarehouseSet THEN safe_str(r.wh) ELSE default_wh
        exist == {i \in 1..Len(inv) : inv[i].sku = r.sku}
        first == CHOOSE i \in exist : \A j \in exist : i <= j
        d == IF exist # {} THEN DescOf(inv[first]) ELSE r.desc
    IN  IF r.sku = "" THEN <<>>
        ELSE <<HistRow(OpeningBalance, d, r.sku, wh, safe_float(r.qty), safe_float(r.cost))>>

\* The record made of one row of the file, none for a row that is skipped
\* (lines 513-555)
OpeningRec(r, inv, default_wh) ==
    LET qty == safe_float(r.qty)
        wh == IF safe_str(r.wh) \in WarehouseSet THEN safe_str(r.wh) ELSE default_wh
        exist == {i \in 1..Len(inv) : inv[i].sku = r.sku}
        first == CHOOSE i \in exist : \A j \in exist : i <= j
        d == IF exist # {} THEN DescOf(inv[first]) ELSE r.desc
    IN  IF r.sku = "" \/ qty <= 0 THEN <<>>
        ELSE <<HistRow(OpeningBalance, d, r.sku, wh, qty, safe_float(r.cost))>>

\* recs, in the order of the rows of the file
RECURSIVE OpeningRecs(_, _, _)
OpeningRecs(rows, inv, default_wh) ==
    IF rows = <<>> THEN <<>>
    ELSE OpeningRec(Head(rows), inv, default_wh) \o OpeningRecs(Tail(rows), inv, default_wh)

\* The import when process_opening_stock_upload returns records
OpeningStored(s, rows, default_wh) ==
    /\ pc[s] = "ready"
    /\ LET recs == OpeningRecs(rows, inventory[s], default_wh)
           hist == history[s] \o normalize_history(Cells(recs))
       IN  /\ recs # <<>>
           /\ Len(hist) <= MaxHist
           /\ Store(s, recalculate_inventory(hist, inventory[s]), hist)

ImportOpening(s, r, default_wh) == OpeningStored(s, <<r>>, default_wh)

\* Restore (lines 569-575, 826-842): the sheet of an uploaded backup
BackupSheets ==
    {<<>>}
    \cup {Cells(<<HistRow(Purchase, D1, "A", Wen, 1, CostUnit)>>),
           Cells(<<HistRow(Sale, D1, "A", OtherWh, 1, 0)>>)}

Restore(s, sheet) ==
    /\ pc[s] = "ready"
    /\ LET df_new_hist == normalize_history(sheet)
       IN  Store(s, recalculate_inventory(df_new_hist, inventory[s]), df_new_hist)

\* What a data editor with num_rows="dynamic" hands back: a row removed, or
\* a cell of a row changed
WithoutRow(df, i) == SubSeq(df, 1, i - 1) \o SubSeq(df, i + 1, Len(df))

EditedInventories(inv) ==
    {WithoutRow(inv, i) : i \in 1..Len(inv)}
    \cup {[inv EXCEPT ![i].total_qty = MaxQty] : i \in 1..Len(inv)}

EditedHistories(hist) ==
    {WithoutRow(Cells(hist), i) : i \in 1..Len(hist)}

EditedLedgers(hist) == {[Cells(hist) EXCEPT ![i].qty = Blank] : i \in {1} \cap DOMAIN hist}

\* Manager page, inventory tab (lines 1481-1484): the grid is saved as it
\* is, without a recompute
MgrSaveInv(s, edited_inv) ==
    /\ pc[s] = "ready"
    /\ Store(s, normalize_inventory(edited_inv), history[s])

\* Manager page, ledger tab (lines 1495-1502)
MgrSaveHist(s, edited_hist) ==
    /\ pc[s] = "ready"
    /\ LET hist == normalize_history(edited_hist)
       IN  Store(s, recalculate_inventory(hist, inventory[s]), hist)

\* Finance page, cost backfill (lines 1537-1554): a purchase row with cost 0
\* gets a cost
CostBackfill(s, i, cost) ==
    /\ pc[s] = "ready"
    /\ i \in 1..Len(history[s])
    /\ history[s][i].doc_type = Purchase
    /\ history[s][i].cost = 0
    /\ LET df == [Cells(history[s]) EXCEPT ![i].cost = cost]
           hist == normalize_history(df)
       IN  Store(s, recalculate_inventory(hist, inventory[s]), hist)

\* Finance page, full ledger (lines 1557-1569)
SaveFullLedger(s, edited_all) ==
    /\ pc[s] = "ready"
    /\ LET hist == normalize_history(edited_all)
       IN  Store(s, recalculate_inventory(hist, inventory[s]), hist)

Init == CallIdle /\ LoopInit /\ SessionIdle /\ LookupIdle

Start == StartSession(Clerk)

NewProduct == \E sku \in ShopSkus : CreateProduct(Clerk, D1, sku)

ProductImport == \E sku \in ShopSkus : ImportProduct(Clerk, D2, sku)

ProductEdit == \E i \in 1..MaxRows, d \in ProductDescs : SaveProductEdit(Clerk, i, d)

SubmitPurchase ==
    \E i \in 1..MaxRows, wh \in FormWarehouses, qty \in FormQuantities :
        SubmitForm(Clerk, Purchase, i, wh, qty)

SubmitSale ==
    \E i \in 1..MaxRows, wh \in FormWarehouses, qty \in FormQuantities :
        SubmitForm(Clerk, Sale, i, wh, qty)

SubmitIssue ==
    \E i \in 1..MaxRows, wh \in FormWarehouses, qty \in FormQuantities :
        SubmitForm(Clerk, ManufactureIssue, i, wh, qty)

SubmitReceipt ==
    \E i \in 1..MaxRows, wh \in FormWarehouses, qty \in FormQuantities :
        SubmitForm(Clerk, ManufactureReceipt, i, wh, qty)

SubmitAdjustment ==
    \E i \in 1..MaxRows, wh \in FormWarehouses, new_qty \in CountedQuantities :
        SubmitCount(Clerk, i, wh, new_qty)

OpeningImport == \E r \in OpeningFileRows : ImportOpening(Clerk, r, WAREHOUSES[1])

RestoreBackup == \E sheet \in BackupSheets : Restore(Clerk, sheet)

ManagerInventory ==
    \E edited_inv \in EditedInventories(inventory[Clerk]) : MgrSaveInv(Clerk, edited_inv)

ManagerLedger ==
    \E edited_hist \in EditedHistories(history[Clerk]) : MgrSaveHist(Clerk, edited_hist)

FinanceCost == \E i \in 1..MaxHist : CostBackfill(Clerk, i, Num(CostUnit))

FinanceLedger ==
    \E edited_all \in EditedLedgers(history[Clerk]) : SaveFullLedger(Clerk, edited_all)

Next ==
    \/ Start
    \/ NewProduct
    \/ SubmitPurchase
    \/ SubmitSale
    \/ SubmitIssue
    \/ SubmitReceipt
    \/ SubmitAdjustment
    \/ OpeningImport
    \/ RestoreBackup
    \/ ManagerInventory
    \/ ManagerLedger
    \/ FinanceCost
    \/ FinanceLedger

Spec == Init /\ [][Next]_vars

\* ------------------------------------------------------------------------
\* The pages of one session with the branches in which a handler refuses
\* what it was given: it displays a message and assigns nothing.  A step is
\* one click: the handler either stores or refuses.
\* ------------------------------------------------------------------------
\* st.error / st.warning / st.info without an assignment or a save
Refuse(s, message) ==
    /\ pc[s] = "ready"
    /\ shown' = [shown EXCEPT ![s] = message]
    /\ UNCHANGED <<inventory, history, db_inventory, db_history, pc,
                   callVars, loopVars, lookupVars>>

NameRequired == "error: name required"

SkuExists == "warning: sku exists"

NoLedgerSheet == "error: no ledger sheet"

NoValidColumns == "error: no valid columns"

NoOpeningData == "error: no valid opening data"

ImportFailed == "error: import failed"

NothingToAdjust == "info: count equals stock"

\* Create product, lines 943-949: a blank name, or a SKU already on file
CreateProductRefused(s, d, sku) ==
    IF d.name \in BlankNames THEN Refuse(s, NameRequired)
    ELSE sku \in SkusOf(inventory[s]) /\ Refuse(s, SkuExists)

CreatePage(s, d, sku) == CreateProduct(s, d, sku) \/ CreateProductRefused(s, d, sku)

\* Stock count, lines 1426-1429: the counted quantity is the one on file
SubmitCountSame(s, i, wh, new_qty) ==
    /\ inventory[s] # <<>>
    /\ i \in 1..Len(inventory[s])
    /\ SelectedRow(sort_inventory(inventory[s]), i).w_stock[wh] = new_qty
    /\ Refuse(s, NothingToAdjust)

CountPage(s, i, wh, new_qty) ==
    SubmitCount(s, i, wh, new_qty) \/ SubmitCountSame(s, i, wh, new_qty)

\* An uploaded backup: a workbook with the ledger sheet, or a file that
\* cannot be read or has no such sheet (process_restore_upload returns None)
BackupFiles ==
    {[ok |-> TRUE, sheet |-> sh] : sh \in BackupSheets} \cup {[ok |-> FALSE, sheet |-> <<>>]}

\* Mutant of RestorePage: the uploaded ledger is added to the session ledger
RestorePageAppending(s, file) ==
    IF file.ok
    THEN /\ pc[s] = "ready"
         /\ LET hist == history[s] \o normalize_history(file.sheet)
            IN  Store(s, recalculate_inventory(hist, inventory[s]), hist)
    ELSE Refuse(s, NoLedgerSheet)

\* Restore, lines 832-842
RestorePage(s, file) ==
    IF file.ok THEN Restore(s, file.sheet) ELSE Refuse(s, NoLedgerSheet)

\* An uploaded opening-stock file: no row, one row or two rows, among them
\* rows with an empty SKU cell and rows with a quantity cell that is empty,
\* zero or negative; or a file that pandas cannot parse
OpeningRow(sku, qty, wh) ==
    [sku |-> sku, qty |-> qty, cost |-> Num(CostUnit), wh |-> wh, desc |-> D1]

OpeningPageRows ==
    {OpeningRow("A", Num(1), w) : w \in {PaddedQianyun, OtherWh}}
    \cup {OpeningRow("", Num(1), PaddedQianyun)}
    \cup {OpeningRow("A", q, OtherWh) : q \in {Blank, Num(0), Num(-1)}}

\* A second row: one that is imported and one that is skipped
OpeningSecondRows == {OpeningRow("A", Num(1), OtherWh), OpeningRow("A", Num(0), OtherWh)}

OpeningFiles ==
    {[ok |-> TRUE, rows |-> rows] : rows \in SeqsUpTo(OpeningPageRows, 1)}
    \cup {[ok |-> TRUE, rows |-> <<a, b>>] : a \in OpeningPageRows, b \in OpeningSecondRows}
    \cup {[ok |-> FALSE, rows |-> <<>>]}

\* Opening stock import, lines 1021-1033
OpeningPage(s, file, default_wh) ==
    IF ~file.ok THEN Refuse(s, ImportFailed)
    ELSE IF OpeningRecs(file.rows, inventory[s], default_wh) = <<>>
         THEN Refuse(s, NoOpeningData)
         ELSE OpeningStored(s, file.rows, default_wh)

\* Import products, lines 975-978: one with the SKU and name
\* columns, or one without them or not parsable
ImportPage(s, ok, d, sku) ==
    IF ok THEN ImportProduct(s, d, sku) ELSE Refuse(s, NoValidColumns)

PageOpening ==
    \E file \in OpeningFiles, default_wh \in FormWarehouses :
        OpeningPage(Clerk, file, default_wh)

PageRestore == \E file \in BackupFiles : RestorePage(Clerk, file)

PageCount ==
    \E i \in 1..MaxRows, wh \in FormWarehouses, new_qty \in CountedQuantities :
        CountPage(Clerk, i, wh, new_qty)

NextPages ==
    \/ Start
    \/ NewProduct
    \/ PageOpening
    \/ PageRestore
    \/ PageCount
    \/ SubmitPurchase
    \/ SubmitSale

SpecPages == Init /\ [][NextPages]_vars

\* ------------------------------------------------------------------------
\* The product page of one session, on two SKUs: create, import and edit,
\* with purchases and sales in between so that products have stock.
\* ------------------------------------------------------------------------
\* A product form with the name left blank
DBlank == [D1 EXCEPT !.name = " "]

PageCreate == \E d \in {D1, DBlank}, sku \in SKUS : CreatePage(Clerk, d, sku)

PageImport == \E ok \in BOOLEAN, sku \in SKUS : ImportPage(Clerk, ok, D2, sku)

PageEdit == \E i \in 1..MaxRows, d \in ProductDescs : SaveProductEdit(Clerk, i, d)

NextProducts ==
    \/ Start
    \/ PageCreate
    \/ PageImport
    \/ PageEdit
    \/ SubmitPurchase
    \/ SubmitSale

SpecProducts == Init /\ [][NextProducts]_vars

\* ------------------------------------------------------------------------
\* Two browser sessions on the same files.  Streamlit runs every session's
\* script in a thread of its own and nothing synchronises them, so the two
\* table writes of save_data (save_to_db, lines 107 and 108) are steps of
\* their own here.  Each session loads, submits one intake form and saves.
\* ------------------------------------------------------------------------
\* The product the files hold at the start, without or with a purchase
SavedLedgers == {<<>>, <<HistRow(Purchase, D1, "A", Wen, 1, 0)>>}

InitSave ==
    /\ CallIdle
    /\ LoopInit
    /\ LookupIdle
    /\ inventory = [s \in Sessions |-> <<>>]
    /\ history = [s \in Sessions |-> <<>>]
    /\ db_history \in SavedLedgers
    /\ db_inventory = recalculate_inventory(db_history, <<InvRow(D1, "A", 0, Zero, ZeroStock)>>)
    /\ pc = [s \in Sessions |-> "new"]
    /\ shown = [s \in Sessions |-> "none"]

\* The submit handler up to its call of save_data
AssignForm(s, doc_type, i, wh, qty) ==
    /\ pc[s] = "ready"
    /\ inventory[s] # <<>>
    /\ i \in 1..Len(inventory[s])
    /\ Len(history[s]) < MaxHist
    /\ LET inv == sort_inventory(inventory[s])
           rec == FormRecord(doc_type, SelectedRow(inv, i), wh, qty)
           hist == Append(history[s], rec)
       IN  /\ history' = [history EXCEPT ![s] = hist]
           /\ inventory' = [inventory EXCEPT ![s] = recalculate_inventory(hist, inv)]
    /\ pc' = [pc EXCEPT ![s] = "save_inventory"]
    /\ UNCHANGED <<db_inventory, db_history, shown, callVars, loopVars, lookupVars>>

\* inv_df.to_sql("inventory", ...)
WriteInventory(s) ==
    /\ pc[s] = "save_inventory"
    /\ db_inventory' = normalize_inventory(inventory[s])
    /\ pc' = [pc EXCEPT ![s] = "save_history"]
    /\ UNCHANGED <<db_history, inventory, history, shown, callVars, loopVars, lookupVars>>

\* hist_df.to_sql("history", ...), and the st.success that follows save_data
WriteHistory(s) ==
    /\ pc[s] = "save_history"
    /\ db_history' = normalize_history(Cells(history[s]))
    /\ pc' = [pc EXCEPT ![s] = "saved"]
    /\ shown' = [shown EXCEPT ![s] = "success"]
    /\ UNCHANGED <<db_inventory, inventory, history, callVars, loopVars, lookupVars>>

Load == \E s \in Sessions : StartSession(s)

Submit ==
    \E s \in Sessions, doc_type \in {Purchase, Sale}, wh \in FormWarehouses,
       qty \in FormQuantities :
        AssignForm(s, doc_type, 1, wh, qty)

SaveInventory == \E s \in Sessions : WriteInventory(s)

SaveHistory == \E s \in Sessions : WriteHistory(s)

NextSave == Load \/ Submit \/ SaveInventory \/ SaveHistory

SpecSave == InitSave /\ [][NextSave]_vars

\* ------------------------------------------------------------------------
\* sku_rule_lookup (lines 153-172) as one call on a rules table and a text.
\* Strings are sequences of one-character strings; a rules table is a
\* sequence of rows [name, code].
\* ------------------------------------------------------------------------
MaxText == 3

MaxRules == 2

DIGITS == {"0", "1", "2", "3", "4", "5", "6", "7", "8", "9"}

IsDigit(c) == c \in DIGITS

\* str.upper() on the letters the inputs use
UpperChar(c) ==
    IF c = "a" THEN "A" ELSE IF c = "b" THEN "B" ELSE IF c = "x" THEN "X"
    ELSE IF c = "y" THEN "Y" ELSE c

upper(s) == [i \in 1..Len(s) |-> UpperChar(s[i])]

\* sub in s
Contains(sub, s) == \E i \in 0..(Len(s) - Len(sub)) : SubSeq(s, i + 1, i + Len(sub)) = sub

RECURSIVE DigitRun(_)
DigitRun(s) ==
    IF s # <<>> /\ IsDigit(Head(s)) THEN <<Head(s)>> \o DigitRun(Tail(s)) ELSE <<>>

\* re.findall(r"\d+", s)[0], or <<>> when findall returns no match
RECURSIVE FirstDigits(_)
FirstDigits(s) ==
    IF s = <<>> THEN <<>>
    ELSE IF IsDigit(Head(s)) THEN DigitRun(s)
    ELSE FirstDigits(Tail(s))

\* s[:2]
FirstTwo(s) == SubSeq(s, 1, IF Len(s) < 2 THEN Len(s) ELSE 2)

ExactRows(rules, t) == {i \in 1..Len(rules) : rules[i].name = t}

FuzzyRows(rules, t) == {i \in 1..Len(rules) : Contains(safe_str(rules[i].name), safe_str(t))}

FirstOf(S) == CHOOSE i \in S : \A j \in S : i <= j

sku_rule_lookup(rules, t) ==
    IF rules = <<>> THEN <<>>
    ELSE IF ExactRows(rules, t) # {}
         THEN upper(safe_str(rules[FirstOf(ExactRows(rules, t))].code))
    ELSE IF FuzzyRows(rules, t) # {}
         THEN upper(safe_str(rules[FirstOf(FuzzyRows(rules, t))].code))
    ELSE IF FirstDigits(safe_str(t)) # <<>> THEN FirstDigits(safe_str(t))
    ELSE upper(FirstTwo(safe_str(t)))

\* Rule names and codes as a rules workbook may hold them, and the texts
\* typed into the product form
RuleNames == {<<"a">>, <<"a", "7">>, <<" ", "B">>}

RuleCodes == {<<"x">>, <<"Y", " ">>}

RuleRows == {[name |-> n, code |-> c] : n \in RuleNames, c \in RuleCodes}

TextChars == {"a", "B", "7", " "}

InitLookup ==
    /\ CallIdle
    /\ LoopInit
    /\ SessionIdle
    /\ rules_df \in SeqsUpTo(RuleRows, MaxRules)
    /\ text \in SeqsUpTo(TextChars, MaxText)
    /\ code = <<>>

Lookup ==
    /\ code = <<>>
    /\ code' = <<sku_rule_lookup(rules_df, text)>>
    /\ UNCHANGED <<rules_df, text, callVars, loopVars, sessVars>>

NextLookup == Lookup

SpecSku == InitLookup /\ [][NextLookup]_vars

\* ------------------------------------------------------------------------
\* Properties
\* ------------------------------------------------------------------------
SumStock(ws) == ws[Wen] + ws[Qianyun] + ws[James] + ws[Imeng]

RatEq(a, b) == a.n * b.d = b.n * a.d

Returned == status = "returned"

\* C1: every row returned by recalculate_inventory has total_qty equal to
\* the sum of its four per-warehouse quantities, for every ledger and
\* product table.
C1_TotalIsWarehouseSum ==
    Returned => \A i \in 1..Len(result) : result[i].total_qty = SumStock(result[i].w_stock)

\* C2: with non-negative quantities, total_qty equals the sum of the
\* per-warehouse quantities before the first row, and every iteration that
\* folds a row without exceeding total_qty keeps it so; the values written
\* back then agree as well.  Hence it holds after every prefix of a ledger
\* on which clamping is never exercised.
C2_ConservationWithoutClamping ==
    /\ total_qty = SumStock(w_stock)
    /\ [][/\ \A e \in LoopRows :
               (/\ Iterate(e)
                /\ total_qty = SumStock(w_stock)
                /\ ~(IsOutbound(e) /\ e.qty > total_qty))
               => total_qty' = SumStock(w_stock')
          /\ (LoopWriteBack /\ total_qty = SumStock(w_stock))
               => out'[1].total_qty = SumStock(out'[1].w_stock)]_vars

\* C2 witness: 2 bought for CostUnit, 1 sold: one unit and half the cost are left
C2_Witness ==
    /\ pos = 2
    /\ total_qty = 1
    /\ total_val = Rat(CostUnit, 2)
    /\ SumStock(w_stock) = 1
    /\ out # <<>>

\* C3: an iteration that folds an outbound row whose quantity exceeds the
\* running total_qty leaves total_qty = 0 and total_val = 0.
C3_OversellZeroesQtyAndValue ==
    [][\A e \in LoopRows :
          (Iterate(e) /\ IsOutbound(e) /\ e.qty > total_qty)
          => (total_qty' = 0 /\ total_val' = Zero)]_vars

\* C4: with non-negative quantities and costs, after every prefix the
\* running total_qty and total_val are >= 0, the values written back
\* (total_qty, avg) are >= 0, and no error leaves the loop.
C4_NeverNegativeNeverRaises ==
    /\ ~raised
    /\ total_qty >= 0
    /\ total_val.d > 0 /\ total_val.n >= 0
    /\ out # <<>> => (out[1].total_qty >= 0 /\ out[1].avg.d > 0 /\ out[1].avg.n >= 0)

\* C4 witness: a sale larger than the stock was folded and the row written
C4_Witness ==
    /\ out # <<>>
    /\ pos = 2
    /\ total_qty = 0
    /\ w_stock[Wen] = -1
    /\ w_stock[Qianyun] = 0

\* C5: moving-average costing.  An inbound row (q, c) with c > 0 takes the
\* running (Q, V) to (Q + q, V + c); an outbound row with q <= Q, Q > 0 to
\* (Q - q, V - q * V / Q); the average written back is V / Q when Q > 0.
\* The ledger 10 @ 100, sell 4, 5 @ 60 ends with total_qty 11, cost basis
\* 120 and average 120 / 11.
C5_MovingAverage ==
    [][/\ \A e \in LoopRows :
             Iterate(e) =>
               /\ (IsInbound(e) /\ e.cost > 0) =>
                     /\ total_qty' = total_qty + e.qty
                     /\ total_val'.n * total_val.d = (total_val.n + e.cost * total_val.d) * total_val'.d
               /\ (IsOutbound(e) /\ e.qty <= total_qty /\ total_qty > 0) =>
                     /\ total_qty' = total_qty - e.qty
                     /\ total_val'.n * total_val.d * total_qty
                           = total_val.n * (total_qty - e.qty) * total_val'.d
       /\ (LoopWriteBack /\ total_qty > 0) =>
             out'[1].avg.n * total_val.d * total_qty = total_val.n * out'[1].avg.d
       /\ FoldFrom(FoldInit, ExampleRows).total_qty = 11
       /\ RatEq(FoldFrom(FoldInit, ExampleRows).total_val, RatOfInt(120))
       /\ RatEq(ReportedAvg(FoldFrom(FoldInit, ExampleRows)), [n |-> 120, d |-> 11])]_vars

\* C5 witness: the worked example has been folded and written back
C5_Witness ==
    /\ pos = 3
    /\ total_qty = 11
    /\ total_val = RatOfInt(120)
    /\ out # <<>>
    /\ out[1].avg = [n |-> 120, d |-> 11]

\* C6: appending an inbound row with total cost 0 leaves the SKU's average
\* cost as it is computed from the ledger without that row.
AvgsOf(table, sku) == {table[i].avg : i \in {j \in 1..Len(table) : table[j].sku = sku}}

Front(s) == SubSeq(s, 1, Len(s) - 1)

Last(s) == s[Len(s)]

C6_ZeroCostInboundKeepsAverage ==
    (/\ Returned
     /\ hist_df # <<>>
     /\ IsInbound(Last(hist_df))
     /\ Last(hist_df).cost = 0)
    => AvgsOf(result, Last(hist_df).sku)
         = AvgsOf(recalculate_inventory(Front(hist_df), result), Last(hist_df).sku)

\* C7: feeding the returned table back in with the same ledger returns the
\* same table again.
C7_Idempotent == Returned => recalculate_inventory(hist_df, result) = result

\* C7 witness: a call returned a table with stock in it
C7_Witness ==
    /\ Returned
    /\ Len(hist_df) = 2
    /\ inv_df # <<>>
    /\ \E i \in 1..Len(result) : result[i].total_qty = 2 /\ RatGtZero(result[i].avg)

\* C8: a SKU of the ledger that the inventory table lacks is returned with
\* the descriptive fields of its first ledger row, and with the quantities
\* it would have as a product with zero stock.
FirstRowOf(df, sku) == df[CHOOSE i \in 1..Len(df) :
                            /\ df[i].sku = sku
                            /\ \A j \in 1..(i - 1) : df[j].sku # sku]

LedgerOnly == SkusOf(hist_df) \ SkusOf(inv_df)

C8_UnknownSkuMaterialized ==
    Returned =>
      \A s \in LedgerOnly :
        /\ \E i \in 1..Len(result) : result[i].sku = s
        /\ \A i \in 1..Len(result) :
              result[i].sku = s => DescOf(result[i]) = DescOf(FirstRowOf(hist_df, s))
        /\ result = recalculate_inventory(hist_df,
                        Append(inv_df, InvRow(DescOf(FirstRowOf(hist_df, s)), s, 0, Zero, ZeroStock)))

\* C8 witness: a ledger-only SKU with two rows that differ in their
\* descriptive fields was returned with stock
C8_Witness ==
    /\ Returned
    /\ \E s \in LedgerOnly :
          /\ \E i, j \in 1..Len(hist_df) :
                i < j /\ hist_df[i].sku = s /\ hist_df[j].sku = s
                      /\ DescOf(hist_df[i]) # DescOf(hist_df[j])
          /\ \E i \in 1..Len(result) : result[i].sku = s /\ result[i].total_qty > 0

\* C9 (as stated): a row whose warehouse cell is not one of WAREHOUSES is
\* folded exactly as if the cell were the first warehouse.
WithWarehouse(df, i, wh) == [df EXCEPT ![i].wh = wh]

RemoveAt(df, i) == SubSeq(df, 1, i - 1) \o SubSeq(df, i + 1, Len(df))

C9_UnknownCellFoldsIntoFirst ==
    Returned =>
      \A i \in 1..Len(hist_df) :
        hist_df[i].wh \notin WarehouseSet
        => result = recalculate_inventory(WithWarehouse(hist_df, i, WAREHOUSES[1]), inv_df)

\* C9 (amended): a row whose warehouse cell, with surrounding blanks
\* stripped, is not one of WAREHOUSES is folded exactly as if the cell were
\* the first warehouse; the call returns, and the row is not dropped.
C9_UnknownWarehouseFoldsIntoFirst ==
    status # "input" =>
      /\ Returned
      /\ \A i \in 1..Len(hist_df) :
            safe_str(hist_df[i].wh) \notin WarehouseSet
            => /\ result = recalculate_inventory(WithWarehouse(hist_df, i, WAREHOUSES[1]), inv_df)
               /\ result # recalculate_inventory(RemoveAt(hist_df, i), inv_df)

\* C9 witness: a purchase with an unknown warehouse was folded into Wen
C9_Witness ==
    /\ Returned
    /\ \E i \in 1..Len(hist_df) : hist_df[i].wh = OtherWh /\ IsInbound(hist_df[i])
    /\ \E i \in 1..Len(result) : result[i].w_stock[Wen] = 2

\* C10 (as stated): the returned table has exactly one row for every SKU of
\* the inventory table or the ledger, and no row for any other SKU.
RowsOf(df, sku) == Cardinality({i \in 1..Len(df) : df[i].sku = sku})

C10_OneRowPerSku ==
    Returned =>
      /\ \A s \in SkusOf(inv_df) \cup SkusOf(hist_df) : RowsOf(result, s) = 1
      /\ SkusOf(result) \subseteq SkusOf(inv_df) \cup SkusOf(hist_df)

\* C10 (amended): the returned table has one row for every row of the
\* inventory table passed in (so exactly one per SKU when that table has no
\* duplicate SKU), exactly one row for every SKU that only the ledger has,
\* and no row for any other SKU.
C10_RowsPerSku ==
    Returned =>
      /\ \A s \in SkusOf(inv_df) : RowsOf(result, s) = RowsOf(inv_df, s)
      /\ \A s \in LedgerOnly : RowsOf(result, s) = 1
      /\ SkusOf(result) \subseteq SkusOf(inv_df) \cup SkusOf(hist_df)

\* C10 witness: a table with a SKU twice and a ledger with both that SKU
\* and a SKU of its own
C10_Witness ==
    /\ Returned
    /\ \E s \in SkusOf(inv_df) : RowsOf(inv_df, s) = 2 /\ s \in SkusOf(hist_df)
    /\ LedgerOnly # {}
    /\ Len(result) = 3

\* C11: the date column is never read.  Whatever dates the rows of the
\* ledger carry, in the same storage order, the call returns the same table;
\* so two ledgers that differ only in their dates return the same table.
Redate(df, f) == [i \in 1..Len(df) |-> [df[i] EXCEPT !.date = f[i]]]

C11_DateIsNotRead ==
    Returned =>
      \A f \in [1..Len(hist_df) -> Dates] :
        recalculate_inventory(Redate(hist_df, f), inv_df) = result

\* C11 witness: a ledger whose rows, folded in the order of some dates they
\* may carry, would give another table than the one returned
C11_Witness ==
    /\ Returned
    /\ Len(hist_df) = 2
    /\ \E f \in [1..Len(hist_df) -> Dates] :
          /\ f[1] > f[2]
          /\ recalculate_inventory(<<Redate(hist_df, f)[2], Redate(hist_df, f)[1]>>, inv_df)
                # result

\* C12: the returned numbers depend on the storage order.  A ledger of an
\* outbound row followed by an inbound row of the same SKU (quantities >= 1)
\* and the ledger with the two rows exchanged return different total_qty
\* for that SKU, and different averages when the inbound row has a cost;
\* the worked example with its sale moved to the end, where no row exceeds
\* the stock, ends with another average as well.
QtysOf(table, sku) == {table[i].total_qty : i \in {j \in 1..Len(table) : table[j].sku = sku}}

Swapped(df) == <<df[2], df[1]>>

OutboundThenInbound ==
    /\ Len(hist_df) = 2
    /\ hist_df[1].sku = hist_df[2].sku
    /\ IsOutbound(hist_df[1]) /\ hist_df[1].qty >= 1
    /\ IsInbound(hist_df[2]) /\ hist_df[2].qty >= 1

C12_StorageOrderMatters ==
    /\ (Returned /\ OutboundThenInbound) =>
          LET sku == hist_df[1].sku
              other == recalculate_inventory(Swapped(hist_df), inv_df)
          IN  /\ QtysOf(result, sku) \cap QtysOf(other, sku) = {}
              /\ hist_df[2].cost > 0 => AvgsOf(result, sku) \cap AvgsOf(other, sku) = {}
    /\ LET moved == <<ExampleRows[1], ExampleRows[3], ExampleRows[2]>>
       IN  /\ FoldFrom(FoldInit, moved).total_qty = FoldFrom(FoldInit, ExampleRows).total_qty
           /\ ~RatEq(ReportedAvg(FoldFrom(FoldInit, moved)),
                     ReportedAvg(FoldFrom(FoldInit, ExampleRows)))

\* C12 witness: a sale stored before the purchase it sells from; one unit
\* is in stock, and none would be with the rows exchanged
C12_Witness ==
    /\ Returned
    /\ OutboundThenInbound
    /\ hist_df[2].cost > 0
    /\ QtysOf(result, hist_df[1].sku) = {1}
    /\ QtysOf(recalculate_inventory(Swapped(hist_df), inv_df), hist_df[1].sku) = {0}

\* C13: per-warehouse quantities are not clamped.  In every state of a
\* session, every row of the recompute over the session ledger has for each
\* warehouse the quantity moved in minus the quantity moved out by the
\* ledger rows of its SKU, however negative, while its total_qty is >= 0;
\* with entries of the forms alone (quantity >= 1, a warehouse of the list)
\* a state is reached whose session inventory has a negative warehouse
\* quantity beside a total_qty >= 0.
SignedQty(h, w) ==
    IF ResolveWarehouse(h) # w THEN 0
    ELSE IF IsInbound(h) THEN h.qty
    ELSE IF IsOutbound(h) THEN -h.qty
    ELSE 0

RECURSIVE NetMoved(_, _, _)
NetMoved(hist, sku, w) ==
    IF hist = <<>> THEN 0
    ELSE (IF Head(hist).sku = sku THEN SignedQty(Head(hist), w) ELSE 0)
         + NetMoved(Tail(hist), sku, w)

FORM_TYPES == {Purchase, Sale, ManufactureIssue, ManufactureReceipt}

FormEntry(h) ==
    /\ h.doc_type \in FORM_TYPES
    /\ h.qty >= 1
    /\ h.wh \in WarehouseSet
    /\ h.cost = 0

C13_WarehouseStockNotClamped ==
    LET view == recalculate_inventory(history[Clerk], inventory[Clerk])
    IN  \A i \in 1..Len(view) :
            /\ \A w \in WarehouseSet :
                  view[i].w_stock[w] = NetMoved(history[Clerk], view[i].sku, w)
            /\ view[i].total_qty >= 0

\* C13 witness: after a purchase into one warehouse and a sale from another,
\* both entered through the forms, the second warehouse is at -1 and the
\* total at 0
C13_Witness ==
    /\ Len(history[Clerk]) = 2
    /\ \A k \in 1..2 : FormEntry(history[Clerk][k])
    /\ history[Clerk][1].doc_type = Purchase
    /\ history[Clerk][2].doc_type = Sale
    /\ db_history = history[Clerk]
    /\ \E i \in 1..Len(inventory[Clerk]) :
          /\ inventory[Clerk][i].w_stock[Qianyun] = -1
          /\ inventory[Clerk][i].w_stock[Wen] = 1
          /\ inventory[Clerk][i].total_qty = 0

\* C14 (as stated): there is a ledger of one SKU, quantities >= 0, in which
\* no outbound row exceeds the running total_qty, some outbound row exceeds
\* the running quantity of its warehouse, and after that row total_qty
\* differs from the sum of the per-warehouse quantities; the ledgers are
\* those the loop can be started on.
After(l, k) == FoldFrom(FoldInit, SubSeq(l, 1, k))

NeverExceedsTotal(l) ==
    \A k \in 1..Len(l) : IsOutbound(l[k]) => l[k].qty <= After(l, k - 1).total_qty

ExceedsWarehouse(l, k) ==
    /\ IsOutbound(l[k])
    /\ l[k].qty > After(l, k - 1).w_stock[ResolveWarehouse(l[k])]

C14_WarehouseOversellBreaksSum ==
    pos = 0 =>
      \E l \in SeqsUpTo(LoopRows, MaxSteps) :
          /\ NeverExceedsTotal(l)
          /\ \E k \in 1..Len(l) :
                /\ ExceedsWarehouse(l, k)
                /\ \E j \in k..Len(l) :
                      After(l, j).total_qty # SumStock(After(l, j).w_stock)

\* C14 (amended): an outbound row that exceeds the running quantity of its
\* warehouse but not the running total_qty leaves that warehouse negative
\* and total_qty still equal to the sum of the per-warehouse quantities;
\* an iteration makes the two differ only by folding an outbound row whose
\* quantity exceeds the running total_qty.
C14_OnlyTotalOversellBreaksSum ==
    [][\A e \in LoopRows :
          (Iterate(e) /\ total_qty = SumStock(w_stock)) =>
            /\ (/\ IsOutbound(e)
                /\ e.qty > w_stock[ResolveWarehouse(e)]
                /\ e.qty <= total_qty)
               => /\ w_stock'[ResolveWarehouse(e)] < 0
                  /\ total_qty' = SumStock(w_stock')
            /\ total_qty' # SumStock(w_stock') => (IsOutbound(e) /\ e.qty > total_qty)]_vars

\* C14 witness: 2 bought into Wen, 1 sold from the second warehouse: the
\* total is 1, and so is the sum of 2, -1, 0, 0
C14_Witness ==
    /\ pos = 2
    /\ total_qty = 1
    /\ w_stock[Wen] = 2
    /\ w_stock[Qianyun] = -1
    /\ SumStock(w_stock) = 1

\* C15: the stock table is a materialized view of the ledger.  In every
\* state of a started session, the quantities and average costs of the
\* session inventory are those of recalculate_inventory applied to the
\* session ledger (and to that inventory, whose stock numbers the recompute
\* overwrites).
StockNumbers(table) ==
    {[sku |-> table[i].sku, total_qty |-> table[i].total_qty, avg |-> table[i].avg,
      w_stock |-> table[i].w_stock] : i \in 1..Len(table)}

C15_InventoryIsRecomputeOfLedger ==
    pc[Clerk] = "ready" =>
      StockNumbers(inventory[Clerk])
        = StockNumbers(recalculate_inventory(history[Clerk], inventory[Clerk]))

\* C16: a submitted purchase, sale, manufacture issue or manufacture
\* receipt form appends exactly one entry of its document type, with
\* quantity >= 1, to the end of the session ledger and leaves the earlier
\* entries as they were; the session inventory becomes the recompute over
\* the new ledger, and both tables are saved.
AppendsOne(doc_type) ==
    /\ Len(history'[Clerk]) = Len(history[Clerk]) + 1
    /\ SubSeq(history'[Clerk], 1, Len(history[Clerk])) = history[Clerk]
    /\ Last(history'[Clerk]).doc_type = doc_type
    /\ Last(history'[Clerk]).qty >= 1
    /\ inventory'[Clerk] = recalculate_inventory(history'[Clerk], inventory[Clerk])
    /\ db_history' = history'[Clerk]
    /\ db_inventory' = inventory'[Clerk]

C16_FormAppendsRecomputesSaves ==
    [][/\ SubmitPurchase => AppendsOne(Purchase)
       /\ SubmitSale => AppendsOne(Sale)
       /\ SubmitIssue => AppendsOne(ManufactureIssue)
       /\ SubmitReceipt => AppendsOne(ManufactureReceipt)]_vars

\* C16 witness: a manufacture issue was submitted after a manufacture
\* receipt; both are in the ledger in that order, recomputed and saved
C16_Witness ==
    /\ Len(history[Clerk]) = 2
    /\ \A k \in 1..2 : FormEntry(history[Clerk][k])
    /\ history[Clerk][1].doc_type = ManufactureReceipt
    /\ history[Clerk][2].doc_type = ManufactureIssue
    /\ inventory[Clerk] = recalculate_inventory(history[Clerk], inventory[Clerk])
    /\ db_history = history[Clerk]
    /\ db_inventory = inventory[Clerk]

\* C17: the later writer wins.  Once both sessions have completed their
\* save, the persisted ledger and the persisted stock table are the session
\* ledger and the session inventory of one of them, the writer that saved
\* later.
BothSaved == \A s \in Sessions : pc[s] = "saved"

C17_LaterWriterWins ==
    BothSaved =>
      \E s \in Sessions : db_history = history[s] /\ db_inventory = inventory[s]

\* C18: sku_rule_lookup returns the code of a rule whose name equals the
\* text when there is one, else the code of a rule whose name is contained
\* in the text when there is one; when no rule matches, which includes an
\* empty rules table, it returns the first run of digits of the text, or
\* without digits its first two characters uppercased.  (Codes and texts
\* are taken stripped, codes uppercased, as the function treats them.)
RuleCode(i) == upper(safe_str(rules_df[i].code))

Fallback(t) ==
    IF FirstDigits(safe_str(t)) # <<>> THEN FirstDigits(safe_str(t))
    ELSE upper(FirstTwo(safe_str(t)))

C18_RuleCodeOrFallback ==
    code # <<>> =>
      /\ ExactRows(rules_df, text) # {}
           => \E i \in ExactRows(rules_df, text) : code[1] = RuleCode(i)
      /\ (ExactRows(rules_df, text) = {} /\ FuzzyRows(rules_df, text) # {})
           => \E i \in FuzzyRows(rules_df, text) : code[1] = RuleCode(i)
      /\ (ExactRows(rules_df, text) = {} /\ FuzzyRows(rules_df, text) = {})
           => code[1] = Fallback(text)

\* C19 (as stated): a ledger row whose document type cell is in neither the
\* inbound nor the outbound list is ignored: removing it from the ledger
\* leaves the quantities and the average cost returned for every SKU as
\* they are (a SKU that only this row names had zeros).
StockOf(table, sku) ==
    {[total_qty |-> table[i].total_qty, avg |-> table[i].avg, w_stock |-> table[i].w_stock] :
        i \in {j \in 1..Len(table) : table[j].sku = sku}}

NoStock == [total_qty |-> 0, avg |-> Zero, w_stock |-> ZeroStock]

SameStockWithout(i) ==
    LET other == recalculate_inventory(RemoveAt(hist_df, i), inv_df)
    IN  \A sku \in SkusOf(result) :
            StockOf(result, sku)
              = IF sku \in SkusOf(other) THEN StockOf(other, sku) ELSE {NoStock}

C19_UnlistedCellIsIgnored ==
    Returned =>
      \A i \in 1..Len(hist_df) :
        hist_df[i].doc_type \notin (INBOUND_TYPES \cup OUTBOUND_TYPES) => SameStockWithout(i)

\* C19 (amended): a ledger row whose document type, with surrounding blanks
\* stripped, is in neither the inbound nor the outbound list is ignored:
\* removing it from the ledger leaves the quantities and the average cost
\* returned for every SKU as they are.
C19_UnlistedTypeIsIgnored ==
    Returned =>
      \A i \in 1..Len(hist_df) :
        safe_str(hist_df[i].doc_type) \notin (INBOUND_TYPES \cup OUTBOUND_TYPES)
        => SameStockWithout(i)

\* C19 witness: a row of an unlisted type, with a quantity and a cost, next
\* to a purchase of the same SKU; the SKU is returned with the purchase alone
C19_Witness ==
    /\ Returned
    /\ Len(hist_df) = 2
    /\ hist_df[1].sku = hist_df[2].sku
    /\ \E i \in 1..2 : hist_df[i].doc_type = Scrap /\ hist_df[i].qty > 0 /\ hist_df[i].cost > 0
    /\ \E i \in 1..2 : hist_df[i].doc_type = Purchase /\ hist_df[i].cost = 0
    /\ QtysOf(result, hist_df[1].sku) = {1}
    /\ AvgsOf(result, hist_df[1].sku) = {Zero}

\* C20: SKUs are processed independently.  The quantities and the average
\* cost returned for a SKU are those returned from the ledger rows of that
\* SKU alone (so two ledgers that differ in rows of other SKUs only return
\* the same numbers for it, whether rows were added, removed or changed);
\* in particular they stay as they are when a row of another SKU is removed.
OwnRows(df, sku) == SelectSeq(df, LAMBDA h : h.sku = sku)

ForeignRemovals(df, sku) == {RemoveAt(df, i) : i \in {j \in 1..Len(df) : df[j].sku # sku}}

C20_SkusAreIndependent ==
    Returned =>
      \A sku \in SkusOf(result) :
        /\ StockOf(result, sku) = StockOf(recalculate_inventory(OwnRows(hist_df, sku), inv_df), sku)
        /\ \A other \in ForeignRemovals(hist_df, sku) :
              StockOf(recalculate_inventory(other, inv_df), sku) = StockOf(result, sku)

\* C20 witness: a ledger with a purchase of one SKU between two rows of
\* another SKU, one of them a sale that exceeds that SKU's stock; the first
\* SKU is returned with its purchase alone
C20_Witness ==
    /\ Returned
    /\ Len(hist_df) = 2
    /\ hist_df[1].sku # hist_df[2].sku
    /\ hist_df[1].doc_type = Sale
    /\ hist_df[2].doc_type = Purchase /\ hist_df[2].cost = CostUnit
    /\ QtysOf(result, hist_df[2].sku) = {1}
    /\ QtysOf(result, hist_df[1].sku) = {0}

\* C21: an outbound row never changes the moving average.  When the running
\* total_qty Q is positive and an outbound row of quantity q, 0 <= q < Q, is
\* folded, cost basis / total_qty after the row equals cost basis /
\* total_qty before it, in exact arithmetic.
C21_OutboundKeepsAverage ==
    [][\A e \in LoopRows :
          (/\ Iterate(e)
           /\ IsOutbound(e)
           /\ total_qty > 0
           /\ 0 <= e.qty /\ e.qty < total_qty)
          => /\ total_qty' > 0
             /\ total_val'.n * total_val.d * total_qty
                   = total_val.n * total_val'.d * total_qty']_vars

\* C21 witness: the worked example after its sale of 4 out of 10 @ 100 in
\* total: 6 left with a cost basis of 60, still 10 each
C21_Witness ==
    /\ pos = 2
    /\ total_qty = 6
    /\ total_val = RatOfInt(60)
    /\ w_stock[Wen] = 6
    /\ out = <<>>

\* C22: stock adjustment.  In a session whose inventory is the recompute of
\* its ledger, submitting a counted quantity n >= 0 for a product and a
\* warehouse appends one row, of type AdjustmentIncrease when n is above the
\* quantity on file for that warehouse and AdjustmentDecrease when below,
\* with quantity |n - current|; the quantity of the product at the warehouse
\* is n afterwards, in the session inventory and in the recompute of the new
\* ledger.  With n equal to the quantity on file nothing is appended and
\* ledger, inventory and files stay as they are.
InventoryIsRecompute ==
    inventory[Clerk] = recalculate_inventory(history[Clerk], inventory[Clerk])

WarehouseQtys(table, sku, wh) ==
    {table[j].w_stock[wh] : j \in {k \in 1..Len(table) : table[k].sku = sku}}

WRITTEN_TYPES ==
    {Purchase, Sale, ManufactureIssue, ManufactureReceipt,
     AdjustmentIncrease, AdjustmentDecrease, OpeningBalance}

NewRowMoves(sign) ==
    LET h == Last(history'[Clerk])
        st == FoldEntry(FoldInit, h)
    IN  /\ Len(history'[Clerk]) = Len(history[Clerk]) + 1
        /\ h.doc_type \in WRITTEN_TYPES
        /\ h.qty >= 1
        /\ IF sign = 1 THEN IsInbound(h) ELSE IsOutbound(h)
        /\ st.w_stock[ResolveWarehouse(h)] = sign * h.qty

C23_WrittenTypesAreClassified ==
    [][/\ (SubmitPurchase \/ SubmitReceipt \/ OpeningImport) => NewRowMoves(1)
       /\ (SubmitSale \/ SubmitIssue) => NewRowMoves(-1)
       /\ \A i \in 1..MaxRows, wh \in FormWarehouses, n \in CountedQuantities :
             SubmitCount(Clerk, i, wh, n) =>
               NewRowMoves(IF n > SelectedRow(sort_inventory(inventory[Clerk]), i).w_stock[wh]
                           THEN 1 ELSE -1)]_vars

\* C23 witness: an opening-stock import followed by a count of 0; the ledger
\* holds the opening row and the decrease, and the warehouse is at 0
C23_Witness ==
    /\ Len(history[Clerk]) = 2
    /\ history[Clerk][1].doc_type = OpeningBalance
    /\ history[Clerk][2].doc_type = AdjustmentDecrease
    /\ history[Clerk][2].wh = history[Clerk][1].wh
    /\ WarehouseQtys(inventory[Clerk], "A", history[Clerk][1].wh) = {0}

\* C24: backup restore.  When the uploaded file cannot be read or has no
\* ledger sheet, the session ledger, the session inventory and the saved
\* tables stay as they are and the error is displayed.  Otherwise the
\* session ledger becomes the uploaded ledger, row for row and nothing else,
\* the session inventory becomes the recompute over it, and both are saved.
RowsIn(df) == {df[k] : k \in 1..Len(df)}

C24_RestoreReplacesOrRefuses ==
    [][\A file \in BackupFiles :
          RestorePage(Clerk, file) =>
            IF file.ok
            THEN /\ history'[Clerk] = normalize_history(file.sheet)
                 /\ Len(history'[Clerk]) = Len(file.sheet)
                 /\ RowsIn(Cells(history'[Clerk])) \subseteq RowsIn(file.sheet)
                 /\ inventory'[Clerk]
                       = recalculate_inventory(history'[Clerk], inventory[Clerk])
                 /\ db_history' = history'[Clerk]
                 /\ db_inventory' = inventory'[Clerk]
            ELSE /\ UNCHANGED <<inventory, history, db_inventory, db_history>>
                 /\ shown'[Clerk] = NoLedgerSheet]_vars

\* C24 witness: a backup with one costed purchase was restored, then a file
\* without the ledger sheet was refused; ledger, inventory and saved tables
\* are those of the backup
C24_Witness ==
    /\ shown[Clerk] = NoLedgerSheet
    /\ history[Clerk] = <<HistRow(Purchase, D1, "A", Wen, 1, CostUnit)>>
    /\ QtysOf(inventory[Clerk], "A") = {1}
    /\ AvgsOf(inventory[Clerk], "A") = {RatOfInt(CostUnit)}
    /\ db_history = history[Clerk]
    /\ db_inventory = inventory[Clerk]

\* C25: product creation.  With a blank name, or a SKU that the session
\* inventory already holds, the session inventory, the session ledger and
\* the saved tables stay as they are.  Otherwise one row is added, the only
\* one of its SKU, with total_qty, average cost and every warehouse quantity
\* at 0; the other rows and the ledger stay as they are and the inventory is
\* saved.
IndexesOf(df, sku) == {k \in 1..Len(df) : df[k].sku = sku}

C25_CreateAddsOneOrRefuses ==
    [][\A d \in {D1, DBlank}, sku \in SKUS :
          CreatePage(Clerk, d, sku) =>
            IF d.name \in BlankNames \/ sku \in SkusOf(inventory[Clerk])
            THEN /\ UNCHANGED <<inventory, history, db_inventory, db_history>>
                 /\ shown'[Clerk] \in {NameRequired, SkuExists}
            ELSE /\ Len(inventory'[Clerk]) = Len(inventory[Clerk]) + 1
                 /\ Cardinality(IndexesOf(inventory'[Clerk], sku)) = 1
                 /\ \A k \in IndexesOf(inventory'[Clerk], sku) :
                       /\ inventory'[Clerk][k] = InvRow(d, sku, 0, Zero, ZeroStock)
                       /\ RemoveAt(inventory'[Clerk], k) = sort_inventory(inventory[Clerk])
                 /\ history' = history
                 /\ db_inventory' = inventory'[Clerk]
                 /\ db_history' = db_history]_vars

\* C25 witness: product A has stock, product B was created beside it, and
\* creating B once more was refused; there is one row of each
C25_Witness ==
    /\ shown[Clerk] = SkuExists
    /\ Len(inventory[Clerk]) = 2
    /\ QtysOf(inventory[Clerk], "A") = {1}
    /\ StockOf(inventory[Clerk], "B") = {NoStock}
    /\ db_inventory = inventory[Clerk]

\* C26: product maintenance leaves stock alone.  A product import and a
\* save of the product grid leave the ledger as it is, keep every SKU of the
\* inventory with as many rows and the same total_qty, average cost and
\* warehouse quantities, and change nothing but the four descriptive
\* fields; a SKU the import adds has zero stock, and the grid adds none.
Numbers(r) == [sku |-> r.sku, total_qty |-> r.total_qty, avg |-> r.avg, w_stock |-> r.w_stock]

StockUntouched ==
    /\ history' = history
    /\ db_history' = db_history
    /\ \A sku \in SkusOf(inventory[Clerk]) :
          /\ StockOf(inventory'[Clerk], sku) = StockOf(inventory[Clerk], sku)
          /\ Cardinality(IndexesOf(inventory'[Clerk], sku))
                = Cardinality(IndexesOf(inventory[Clerk], sku))
    /\ \A sku \in SkusOf(inventory'[Clerk]) \ SkusOf(inventory[Clerk]) :
          StockOf(inventory'[Clerk], sku) = {NoStock}
    /\ {Numbers(r) : r \in RowsIn(inventory'[Clerk])}
          \subseteq {Numbers(r) : r \in RowsIn(inventory[Clerk])}
              \cup {Numbers(InvRow(D1, sku, 0, Zero, ZeroStock)) : sku \in SKUS}

C26_ProductMaintenanceKeepsStock ==
    [][/\ PageImport => (StockUntouched /\ Len(inventory'[Clerk]) <= Len(inventory[Clerk]) + 1)
       /\ PageEdit => (StockUntouched /\ SkusOf(inventory'[Clerk]) = SkusOf(inventory[Clerk])
                                      /\ Len(inventory'[Clerk]) = Len(inventory[Clerk]))]_vars

\* C26 witness: product A was created, bought once and then imported with
\* other descriptive fields; its row has the imported fields and the stock
\* of the purchase, whose ledger row keeps the fields it was written with
C26_Witness ==
    /\ Len(inventory[Clerk]) = 1
    /\ Len(history[Clerk]) = 1
    /\ history[Clerk][1].doc_type = Purchase
    /\ DescOf(history[Clerk][1]) = D1
    /\ DescOf(inventory[Clerk][1]) = D2
    /\ inventory[Clerk][1].sku = history[Clerk][1].sku
    /\ inventory[Clerk][1].total_qty = 1
    /\ db_inventory = inventory[Clerk]

\* C27: opening-stock import.  The rows of the file with a non-empty SKU and
\* a quantity above 0 each append one row of type OpeningBalance, in file
\* order, with that SKU and quantity and with the stripped warehouse of the
\* row when it is one of WAREHOUSES and the selected default otherwise; the
\* other rows append nothing.  When the file has no such row, or cannot be
\* parsed, session ledger, session inventory and saved tables stay as they
\* are.
ValidOpeningRows(rows) ==
    SelectSeq(rows, LAMBDA r : r.sku # "" /\ safe_float(r.qty) > 0)

OpeningEntry(h, r, default_wh) ==
    /\ h.doc_type = OpeningBalance
    /\ h.sku = r.sku /\ h.sku # ""
    /\ h.qty = safe_float(r.qty) /\ h.qty > 0
    /\ h.wh \in WarehouseSet
    /\ h.wh = (IF safe_str(r.wh) \in WarehouseSet THEN safe_str(r.wh) ELSE default_wh)

C27_OpeningImportAppendsValidRows ==
    [][\A file \in OpeningFiles, default_wh \in FormWarehouses :
          OpeningPage(Clerk, file, default_wh) =>
            LET valid == ValidOpeningRows(file.rows)
                old == Len(history[Clerk])
            IN  IF ~file.ok \/ valid = <<>>
                THEN /\ UNCHANGED <<inventory, history, db_inventory, db_history>>
                     /\ shown'[Clerk] \in {ImportFailed, NoOpeningData}
                ELSE /\ Len(history'[Clerk]) = old + Len(valid)
                     /\ SubSeq(history'[Clerk], 1, old) = history[Clerk]
                     /\ \A k \in 1..Len(valid) :
                           OpeningEntry(history'[Clerk][old + k], valid[k], default_wh)
                     /\ inventory'[Clerk]
                           = recalculate_inventory(history'[Clerk], inventory[Clerk])]_vars

\* C27 witness: two opening rows are in the ledger, one in the warehouse its
\* padded cell names and one in the default warehouse, and a file without a
\* valid row was refused afterwards
C27_Witness ==
    /\ shown[Clerk] = NoOpeningData
    /\ Len(history[Clerk]) = 2
    /\ \A k \in 1..2 : history[Clerk][k].doc_type = OpeningBalance
    /\ history[Clerk][1].wh = Qianyun
    /\ history[Clerk][2].wh = Wen
    /\ QtysOf(inventory[Clerk], "A") = {2}
    /\ AvgsOf(inventory[Clerk], "A") = {RatOfInt(CostUnit)}

====
